---------------------------- MODULE Spec2Model ----------------------------
(***************************************************************************)
(* Model of the cipher transform engine of CipherGrid (lib/ciphers.ts).    *)
(*                                                                         *)
(* A text is a sequence of one-character strings.  Every cipher is an      *)
(* operator that returns a record                                          *)
(*     [error |-> message or NoError, out |-> text, steps |-> lines]       *)
(* where steps is the content of the caller's trace sink after the call    *)
(* (the lines pushed before a throw stay in the sink) and out is the       *)
(* returned string (empty when the call threw).  A trace line is a record  *)
(* [kind, txt]: kind names the template of the line and txt holds the      *)
(* interpolated values in order.                                           *)
(***************************************************************************)
EXTENDS Integers, Sequences, FiniteSets, TLC

VARIABLES
    algo,      \* the cipher the caller selected
    key,       \* the key arguments: [a, b, str, str2, matrix, rows, cols]
    text,      \* the text argument of the next call
    encrypt,   \* the mode argument of the last call
    result,    \* the string returned by the last call
    error,     \* the message of the error thrown by the last call, or NoError
    steps,     \* the trace sink handed to the calls
    plain,     \* the text handed to the first call
    history,   \* the mode and the outcome of each call made
    pc         \* "input", "output" (a call returned), "swapped", "done"

vars == <<algo, key, text, encrypt, result, error, steps, plain, history, pc>>

-----------------------------------------------------------------------------
(* Characters *)

\* the characters of code 32..95
PrintableLow == <<
    " ", "!", "\"", "#", "$", "%", "&", "'", "(", ")", "*", "+", ",", "-", ".", "/",
    "0", "1", "2", "3", "4", "5", "6", "7", "8", "9", ":", ";", "<", "=", ">", "?",
    "@", "A", "B", "C", "D", "E", "F", "G", "H", "I", "J", "K", "L", "M", "N", "O",
    "P", "Q", "R", "S", "T", "U", "V", "W", "X", "Y", "Z", "[", "\\", "]", "^", "_" >>

\* the characters of code 97..126
PrintableHigh == <<
    "a", "b", "c", "d", "e", "f", "g", "h", "i", "j", "k", "l", "m", "n", "o",
    "p", "q", "r", "s", "t", "u", "v", "w", "x", "y", "z", "{", "|", "}", "~" >>

CharSet ==
    {PrintableLow[i] : i \in 1..Len(PrintableLow)}
        \cup {PrintableHigh[i] : i \in 1..Len(PrintableHigh)} \cup {"\n"}

CodeTable ==
    [c \in CharSet |->
        IF c = "\n" THEN 10
        ELSE IF \E i \in 1..Len(PrintableLow) : PrintableLow[i] = c
             THEN 31 + (CHOOSE i \in 1..Len(PrintableLow) : PrintableLow[i] = c)
             ELSE 96 + (CHOOSE i \in 1..Len(PrintableHigh) : PrintableHigh[i] = c)]

charCodeAt(c) == CodeTable[c]

fromCharCode(n) ==
    IF n = 10 THEN "\n"
    ELSE IF n <= 95 THEN PrintableLow[n - 31] ELSE PrintableHigh[n - 96]

isUpper(c) == charCodeAt(c) >= 65 /\ charCodeAt(c) <= 90

isLower(c) == charCodeAt(c) >= 97 /\ charCodeAt(c) <= 122

isLetter(c) == isUpper(c) \/ isLower(c)

isDigit(c) == charCodeAt(c) >= 48 /\ charCodeAt(c) <= 57

toUpperCase(c) == IF isLower(c) THEN fromCharCode(charCodeAt(c) - 32) ELSE c

toLowerCase(c) == IF isUpper(c) THEN fromCharCode(charCodeAt(c) + 32) ELSE c

parseInt(c) == charCodeAt(c) - 48

upperText(s) == [i \in 1..Len(s) |-> toUpperCase(s[i])]

lettersOnly(s) == SelectSeq(s, LAMBDA c : isLetter(c))

digitsOnly(s) == SelectSeq(s, LAMBDA c : isDigit(c))

\* the key in upper case with every character that is no letter removed
processKey(k) == lettersOnly(upperText(k))

-----------------------------------------------------------------------------
(* Trace lines and call outcomes *)

NoError == "none"

Line(kind, txt) == [kind |-> kind, txt |-> txt]

FinalLine(r) == Line("Final result", r)

\* Returned that hands back the last line of the sink only
ReturnedLastLineOnly(r, st) == [error |-> NoError, out |-> r, steps |-> <<st[Len(st)]>>]

Returned(r, st) == [error |-> NoError, out |-> r, steps |-> st]

Thrown(msg, st) == [error |-> msg, out |-> << >>, steps |-> st]

\* the lines a map over the characters of t pushes: one per letter
LetterLines(t, lineOf(_)) ==
    LET all == [i \in 1..Len(t) |->
                   IF isLetter(t[i]) THEN lineOf(i) ELSE Line("skip", << >>)]
    IN  SelectSeq(all, LAMBDA l : l.kind # "skip")

-----------------------------------------------------------------------------
(* Utility functions *)

Abs(n) == IF n < 0 THEN -n ELSE n

\* the remainder operator of the language: the sign follows the dividend
Rem(n, m) == IF n < 0 THEN -(Abs(n) % Abs(m)) ELSE n % Abs(m)

mod(n, m) == Rem(Rem(n, m) + m, m)

RECURSIVE gcd(_, _)
gcd(a, b) == IF b = 0 THEN a ELSE gcd(b, Rem(a, b))

NoInverse == 0

\* NoInverse stands for the throw of "Modular inverse does not exist"
modInverse(a, m) ==
    LET found == {x \in 1..(m - 1) : Rem(a * x, m) = 1}
    IN  IF found = {} THEN NoInverse
        ELSE CHOOSE x \in found : \A y \in found : x <= y

isValidMatrix(matrix) ==
    IF Len(matrix) # 2 \/ Len(matrix[1]) # 2 \/ Len(matrix[2]) # 2
    THEN FALSE
    ELSE LET det == Rem(matrix[1][1] * matrix[2][2] - matrix[1][2] * matrix[2][1], 26)
         IN  gcd(mod(det, 26), 26) = 1

\* matrixInverse with the adjugate taken without the sign changes
matrixInverseUnsignedAdjugate(matrix) ==
    LET det    == mod(matrix[1][1] * matrix[2][2] - matrix[1][2] * matrix[2][1], 26)
        detInv == modInverse(det, 26)
        adj    == << <<matrix[2][2], matrix[1][2]>>, <<matrix[2][1], matrix[1][1]>> >>
    IN  IF detInv = NoInverse THEN << >>
        ELSE << <<mod(adj[1][1] * detInv, 26), mod(adj[1][2] * detInv, 26)>>,
                <<mod(adj[2][1] * detInv, 26), mod(adj[2][2] * detInv, 26)>> >>

\* << >> stands for the throw of modInverse
matrixInverse(matrix) ==
    LET det    == mod(matrix[1][1] * matrix[2][2] - matrix[1][2] * matrix[2][1], 26)
        detInv == modInverse(det, 26)
        adj    == << <<matrix[2][2], -matrix[1][2]>>, <<-matrix[2][1], matrix[1][1]>> >>
    IN  IF detInv = NoInverse THEN << >>
        ELSE << <<mod(adj[1][1] * detInv, 26), mod(adj[1][2] * detInv, 26)>>,
                <<mod(adj[2][1] * detInv, 26), mod(adj[2][2] * detInv, 26)>> >>

-----------------------------------------------------------------------------
(* Substitution family *)

ModeName(enc) == IF enc THEN "Encrypting" ELSE "Decrypting"

\* Base that takes the upper-case base for both cases
BaseUpperOnly(c) == 65

\* the code of the first letter of the case of c
Base(c) == IF isUpper(c) THEN 65 ELSE 97

\* 1. Atbash
atbashChar(c) ==
    IF isUpper(c) THEN fromCharCode(155 - charCodeAt(c))
    ELSE IF isLower(c) THEN fromCharCode(219 - charCodeAt(c))
    ELSE c

atbashCipher(t, st) ==
    LET res == [i \in 1..Len(t) |-> atbashChar(t[i])]
    IN  Returned(res,
            st \o <<Line("Atbash Cipher", << >>)>>
               \o LetterLines(t, LAMBDA i : Line("map", <<t[i], res[i]>>))
               \o <<FinalLine(res)>>)

\* caesarShift with the decrypt branch (key = 26 - key) left out
caesarShiftNotInverted(k, enc) == mod(k, 26)

\* 2. Caesar: the shift the map adds, after the key is reduced and, in
\* decrypt mode, replaced by 26 - key
caesarShift(k, enc) == IF enc THEN mod(k, 26) ELSE 26 - mod(k, 26)

caesarChar(c, shift) ==
    IF isLetter(c) THEN fromCharCode(mod(charCodeAt(c) - Base(c) + shift, 26) + Base(c))
    ELSE c

caesarCipher(t, k, enc, st) ==
    LET shift == caesarShift(k, enc)
        shown == IF enc THEN shift ELSE 26 - shift
        res   == [i \in 1..Len(t) |-> caesarChar(t[i], shift)]
    IN  Returned(res,
            st \o <<Line("Caesar Cipher", <<ModeName(enc), ToString(shown)>>)>>
               \o LetterLines(t, LAMBDA i :
                      Line("map", <<t[i], res[i],
                                    ToString(charCodeAt(t[i]) - Base(t[i])),
                                    IF enc THEN "+" ELSE "-",
                                    ToString(shown),
                                    ToString(mod(charCodeAt(t[i]) - Base(t[i]) + shift, 26))>>))
               \o <<FinalLine(res)>>)

\* affineNumber with the decryption written a^(-1) * y - b
affineNumberNoParens(x, keyA, keyB, aInverse, enc) ==
    IF enc THEN mod(keyA * x + keyB, 26)
    ELSE mod(aInverse * x - keyB, 26)

\* 3. Affine
affineNumber(x, keyA, keyB, aInverse, enc) ==
    IF enc THEN mod(keyA * x + keyB, 26)
    ELSE mod(aInverse * mod(x - keyB, 26), 26)

\* affineChar that writes a blank for a character that is no letter
affineCharBlanksOthers(c, keyA, keyB, aInverse, enc) ==
    IF isLetter(c)
    THEN fromCharCode(affineNumber(charCodeAt(c) - Base(c), keyA, keyB, aInverse, enc) + Base(c))
    ELSE " "

affineChar(c, keyA, keyB, aInverse, enc) ==
    IF isLetter(c)
    THEN fromCharCode(affineNumber(charCodeAt(c) - Base(c), keyA, keyB, aInverse, enc) + Base(c))
    ELSE c

affineCipher(t, keyA, keyB0, enc, st) ==
    IF gcd(keyA, 26) # 1 THEN Thrown("Key A must be coprime with 26", st)
    ELSE
        LET keyB     == mod(keyB0, 26)
            st1      == st \o <<Line("Affine Cipher",
                                     <<ModeName(enc), ToString(keyA), ToString(keyB)>>)>>
            aInverse == IF enc THEN 0 ELSE modInverse(keyA, 26)
        IN  IF ~enc /\ aInverse = NoInverse
            THEN Thrown("Modular inverse does not exist", st1)
            ELSE
                LET st2 == IF enc THEN st1
                           ELSE st1 \o <<Line("Calculated modular inverse",
                                              <<ToString(keyA), ToString(aInverse)>>)>>
                    res == [i \in 1..Len(t) |-> affineChar(t[i], keyA, keyB, aInverse, enc)]
                IN  Returned(res,
                        st2 \o LetterLines(t, LAMBDA i :
                                   Line("map", <<t[i], res[i],
                                                 ToString(IF enc THEN keyA ELSE aInverse),
                                                 ToString(charCodeAt(t[i]) - Base(t[i])),
                                                 ToString(keyB),
                                                 ToString(charCodeAt(res[i]) - Base(t[i]))>>))
                            \o <<FinalLine(res)>>)

-----------------------------------------------------------------------------
(* Polyalphabetic family *)

\* the value of keyIndex when the map reaches position i: one step per letter
keyIndexAt(t, i) == Cardinality({j \in 1..(i - 1) : isLetter(t[j])})

\* shiftLetter that adds the key shift in both modes
shiftLetterAlwaysAdds(c, keyShift, enc) ==
    fromCharCode(mod(charCodeAt(c) - Base(c) + keyShift, 26) + Base(c))

\* E(x) = (x + key[i]) mod 26, D(x) = (x - key[i]) mod 26, in the case of c
shiftLetter(c, keyShift, enc) ==
    fromCharCode(mod(charCodeAt(c) - Base(c) + (IF enc THEN keyShift ELSE -keyShift), 26)
                 + Base(c))

shiftLine(c, keyTxt, keyShift, enc) ==
    Line("map", <<c, IF enc THEN "+" ELSE "-", keyTxt, shiftLetter(c, keyShift, enc),
                  ToString(charCodeAt(c) - Base(c)), ToString(keyShift),
                  ToString(charCodeAt(shiftLetter(c, keyShift, enc)) - Base(c))>>)

\* 4. Vigenere
vigenereCipher(t, k, enc, st) ==
    IF Len(k) = 0 THEN Thrown("Key cannot be empty", st)
    ELSE LET processedKey == processKey(k) IN
         IF Len(processedKey) = 0 THEN Thrown("Key must contain at least one letter", st)
         ELSE
            LET keyChar(i)  == processedKey[(keyIndexAt(t, i) % Len(processedKey)) + 1]
                keyShift(i) == charCodeAt(keyChar(i)) - 65
                res == [i \in 1..Len(t) |->
                           IF isLetter(t[i]) THEN shiftLetter(t[i], keyShift(i), enc)
                           ELSE t[i]]
            IN  Returned(res,
                    st \o <<Line("Vigenere Cipher", <<ModeName(enc)>> \o processedKey)>>
                       \o LetterLines(t, LAMBDA i :
                              shiftLine(t[i], keyChar(i), keyShift(i), enc))
                       \o <<FinalLine(res)>>)

\* 5. Gronsfeld
gronsfeldCipher(t, k, enc, st) ==
    IF Len(k) = 0 THEN Thrown("Key cannot be empty", st)
    ELSE LET processedKey == digitsOnly(k) IN
         IF Len(processedKey) = 0 THEN Thrown("Key must contain at least one digit", st)
         ELSE
            LET keyShift(i) ==
                    parseInt(processedKey[(keyIndexAt(t, i) % Len(processedKey)) + 1])
                res == [i \in 1..Len(t) |->
                           IF isLetter(t[i]) THEN shiftLetter(t[i], keyShift(i), enc)
                           ELSE t[i]]
            IN  Returned(res,
                    st \o <<Line("Gronsfeld Cipher", <<ModeName(enc)>> \o processedKey)>>
                       \o LetterLines(t, LAMBDA i :
                              shiftLine(t[i], ToString(keyShift(i)), keyShift(i), enc))
                       \o <<FinalLine(res)>>)

\* beaufortLetter with the subtraction reversed: text letter minus key letter
beaufortLetterTextMinusKey(c, keyChar) ==
    IF isUpper(c)
    THEN fromCharCode(mod(charCodeAt(c) - charCodeAt(keyChar), 26) + 65)
    ELSE fromCharCode(mod(charCodeAt(c) - 97 - (charCodeAt(keyChar) - 65), 26) + 97)

\* 6. Beaufort: E(x) = (key[i] - x) mod 26
beaufortLetter(c, keyChar) ==
    IF isUpper(c)
    THEN fromCharCode(mod(charCodeAt(keyChar) - charCodeAt(c), 26) + 65)
    ELSE fromCharCode(mod(charCodeAt(keyChar) - 65 - (charCodeAt(c) - 97), 26) + 97)

beaufortCipher(t, k, st) ==
    IF Len(k) = 0 THEN Thrown("Key cannot be empty", st)
    ELSE LET processedKey == processKey(k) IN
         IF Len(processedKey) = 0 THEN Thrown("Key must contain at least one letter", st)
         ELSE
            LET keyChar(i) == processedKey[(keyIndexAt(t, i) % Len(processedKey)) + 1]
                res == [i \in 1..Len(t) |->
                           IF isLetter(t[i]) THEN beaufortLetter(t[i], keyChar(i))
                           ELSE t[i]]
            IN  Returned(res,
                    st \o <<Line("Beaufort Cipher", processedKey)>>
                       \o LetterLines(t, LAMBDA i :
                              Line("map", <<keyChar(i), "-", t[i], res[i],
                                            ToString(charCodeAt(keyChar(i)) - 65),
                                            ToString(charCodeAt(t[i]) - Base(t[i])),
                                            ToString(charCodeAt(res[i]) - Base(t[i]))>>))
                       \o <<FinalLine(res)>>)

\* autoKeyExtension that extends the key with the character read, in both modes
autoKeyExtensionOfInput(char, newChar, enc) == toUpperCase(char)

\* 7. Auto Key: the character appended to fullKey after a letter: encryption
\* extends the key with the plaintext character, decryption with the
\* decrypted character, in upper case
autoKeyExtension(char, newChar, enc) == toUpperCase(IF enc THEN char ELSE newChar)

\* the loop over the positions of the text from position i on
\* (i counts from 1; the code's index is i - 1); acc = [fullKey, result, lines]
RECURSIVE autoKeyLoop(_, _, _, _)
autoKeyLoop(t, i, enc, acc) ==
    IF i > Len(t) THEN acc
    ELSE
        LET char == t[i]
            keyChar == IF i - 1 < Len(acc.fullKey) THEN acc.fullKey[i]
                       ELSE acc.fullKey[Len(acc.fullKey)]
            keyShift == charCodeAt(keyChar) - 65
            newChar == shiftLetter(char, keyShift, enc)
            added == autoKeyExtension(char, newChar, enc)
        IN  IF isLetter(char)
            THEN autoKeyLoop(t, i + 1, enc,
                     [fullKey |-> Append(acc.fullKey, added),
                      result  |-> Append(acc.result, newChar),
                      lines   |-> Append(acc.lines, shiftLine(char, keyChar, keyShift, enc))])
            ELSE autoKeyLoop(t, i + 1, enc,
                     [acc EXCEPT !.result = Append(acc.result, char)])

autoKeyCipher(t, k, enc, st) ==
    IF Len(k) = 0 THEN Thrown("Key cannot be empty", st)
    ELSE LET processedKey == processKey(k) IN
         IF Len(processedKey) = 0 THEN Thrown("Key must contain at least one letter", st)
         ELSE
            LET done == autoKeyLoop(t, 1, enc,
                            [fullKey |-> processedKey, result |-> << >>, lines |-> << >>])
            IN  Returned(done.result,
                    st \o <<Line("Auto Key Cipher", <<ModeName(enc)>> \o processedKey),
                            Line(IF enc THEN "Encryption: Using key + plaintext as the running key"
                                 ELSE "Decryption: Building the key as we decrypt", << >>)>>
                       \o done.lines
                       \o <<FinalLine(done.result)>>)

\* 8. Running Key: processedKey appended to fullKey until fullKey is at least
\* as long as the letters of the text
RECURSIVE tileKey(_, _, _)
tileKey(fullKey, processedKey, n) ==
    IF Len(fullKey) < n THEN tileKey(fullKey \o processedKey, processedKey, n)
    ELSE fullKey

runningKeyCipher(t, k, enc, st) ==
    IF Len(k) = 0 THEN Thrown("Key cannot be empty", st)
    ELSE LET processedKey == processKey(k) IN
         IF Len(processedKey) = 0 THEN Thrown("Key must contain at least one letter", st)
         ELSE
            LET fullKey     == tileKey(<< >>, processedKey, Len(lettersOnly(t)))
                keyChar(i)  == fullKey[keyIndexAt(t, i) + 1]
                keyShift(i) == charCodeAt(keyChar(i)) - 65
                res == [i \in 1..Len(t) |->
                           IF isLetter(t[i]) THEN shiftLetter(t[i], keyShift(i), enc)
                           ELSE t[i]]
            IN  Returned(res,
                    st \o <<Line("Running Key Cipher", <<ModeName(enc)>> \o processedKey)>>
                       \o LetterLines(t, LAMBDA i :
                              shiftLine(t[i], keyChar(i), keyShift(i), enc))
                       \o <<FinalLine(res)>>)

-----------------------------------------------------------------------------
(* Sequence helpers *)

\* the concatenation of a sequence of sequences
RECURSIVE Flatten(_)
Flatten(ss) ==
    IF Len(ss) = 0 THEN << >> ELSE Flatten(SubSeq(ss, 1, Len(ss) - 1)) \o ss[Len(ss)]

\* f(1) \o f(2) \o ... \o f(n)
ConcatTo(n, f(_)) == Flatten([i \in 1..n |-> f(i)])

\* row.join(' ')
JoinSpace(row) ==
    ConcatTo(Len(row), LAMBDA j : IF j = 1 THEN <<row[j]>> ELSE <<" ", row[j]>>)

\* the first position of x in seq
IndexOf(seq, x) == CHOOSE k \in 1..Len(seq) : seq[k] = x /\ \A m \in 1..(k - 1) : seq[m] # x

\* Math.ceil(n / d) for n >= 0, d > 0
Ceil(n, d) == (n + d - 1) \div d

Min(a, b) == IF a < b THEN a ELSE b

-----------------------------------------------------------------------------
(* 9. Hill *)

\* hillLetter with the two letters of each transformed block exchanged
hillLetterBlockExchanged(matrix, padded, k) ==
    LET b  == 2 * ((k - 1) \div 2) + 1
        x1 == charCodeAt(padded[b]) - 65
        x2 == charCodeAt(padded[b + 1]) - 65
        y1 == mod(matrix[1][1] * x1 + matrix[1][2] * x2, 26)
        y2 == mod(matrix[2][1] * x1 + matrix[2][2] * x2, 26)
    IN  fromCharCode((IF k = b THEN y2 ELSE y1) + 65)

\* the transformed letter k (from 1) of the padded text
hillLetter(matrix, padded, k) ==
    LET b  == 2 * ((k - 1) \div 2) + 1
        x1 == charCodeAt(padded[b]) - 65
        x2 == charCodeAt(padded[b + 1]) - 65
        y1 == mod(matrix[1][1] * x1 + matrix[1][2] * x2, 26)
        y2 == mod(matrix[2][1] * x1 + matrix[2][2] * x2, 26)
    IN  fromCharCode((IF k = b THEN y1 ELSE y2) + 65)

hillCipher(t, keyMatrix, enc, st) ==
    IF ~isValidMatrix(keyMatrix)
    THEN Thrown("Invalid key matrix. Determinant must be coprime with 26.", st)
    ELSE
        LET st1    == st \o <<Line("Hill Cipher",
                           <<ModeName(enc), ToString(keyMatrix[1][1]), ToString(keyMatrix[1][2]),
                             ToString(keyMatrix[2][1]), ToString(keyMatrix[2][2])>>)>>
            matrix == IF enc THEN keyMatrix ELSE matrixInverse(keyMatrix)
        IN  IF matrix = << >> THEN Thrown("Modular inverse does not exist", st1)
            ELSE
                LET st2 == IF enc THEN st1
                           ELSE st1 \o <<Line("Calculated inverse matrix",
                                    <<ToString(matrix[1][1]), ToString(matrix[1][2]),
                                      ToString(matrix[2][1]), ToString(matrix[2][2])>>)>>
                    processedText == lettersOnly(upperText(t))
                    paddedText == IF Len(processedText) % 2 = 0 THEN processedText
                                  ELSE Append(processedText, "X")
                    res == [k \in 1..Len(paddedText) |-> hillLetter(matrix, paddedText, k)]
                    blockLines == [b \in 1..(Len(paddedText) \div 2) |->
                                      Line("block", <<paddedText[2 * b - 1], paddedText[2 * b],
                                                      res[2 * b - 1], res[2 * b]>>)]
                    \* the original positions, fed from res by resultIndex
                    finalResult ==
                        ConcatTo(Len(t), LAMBDA i :
                            IF isLetter(t[i])
                            THEN IF keyIndexAt(t, i) < Len(res)
                                 THEN <<IF isUpper(t[i]) THEN res[keyIndexAt(t, i) + 1]
                                        ELSE toLowerCase(res[keyIndexAt(t, i) + 1])>>
                                 ELSE << >>
                            ELSE <<t[i]>>)
                IN  Returned(finalResult,
                        st2 \o <<Line("Processed text", paddedText)>>
                            \o blockLines
                            \o <<FinalLine(finalResult)>>)

-----------------------------------------------------------------------------
(* 10. Rail Fence *)

\* the rail (from 0) of each of the first n positions of the zig-zag;
\* acc = [rails so far, rail, direction]
RECURSIVE zigzagLoop(_, _, _)
zigzagLoop(n, rails, acc) ==
    IF Len(acc.seq) = n THEN acc.seq
    ELSE LET direction == IF acc.rail = 0 THEN 1
                          ELSE IF acc.rail = rails - 1 THEN -1
                          ELSE acc.direction
         IN  zigzagLoop(n, rails,
                 [seq |-> Append(acc.seq, acc.rail), rail |-> acc.rail + direction,
                  direction |-> direction])

\* zigzag that wraps from the last rail to rail 0 instead of bouncing
zigzagWraps(n, rails) == [i \in 1..n |-> (i - 1) % rails]

zigzag(n, rails) == zigzagLoop(n, rails, [seq |-> << >>, rail |-> 0, direction |-> 1])

\* railStart that starts every rail at the first ciphertext character
railStartZero(railOf, r) == 0

\* the number of ciphertext characters that fill the rails above rail r
railStart(railOf, r) == Cardinality({i \in 1..Len(railOf) : railOf[i] < r})

railFenceCipher(t, rails, enc, st) ==
    IF rails < 2 THEN Thrown("Number of rails must be at least 2", st)
    ELSE
        LET st1    == st \o <<Line("Rail Fence Cipher", <<ModeName(enc), ToString(rails)>>)>>
            railOf == zigzag(Len(t), rails)
            \* the positions of the text that lie on rail r, in order
            onRail(r) == SelectSeq([i \in 1..Len(t) |-> i], LAMBDA i : railOf[i] = r)
        IN  IF enc
            THEN
                LET fence(r) == [k \in 1..Len(onRail(r)) |-> t[onRail(r)[k]]]
                    visualization(r) ==
                        [i \in 1..Len(t) |-> IF railOf[i] = r THEN t[i] ELSE " "]
                    res == ConcatTo(rails, LAMBDA r : fence(r - 1))
                IN  Returned(res,
                        st1 \o <<Line("Rail fence pattern:", << >>)>>
                            \o [r \in 1..rails |-> Line("row", visualization(r - 1))]
                            \o <<FinalLine(res)>>)
            ELSE
                LET fence(r) == [k \in 1..Len(onRail(r)) |-> t[railStart(railOf, r) + k]]
                    \* position i takes the next unread character of its rail
                    res == [i \in 1..Len(t) |->
                               fence(railOf[i])[Cardinality({j \in 1..i : railOf[j] = railOf[i]})]]
                IN  Returned(res,
                        st1 \o <<Line("Filled rail fence pattern:", << >>)>>
                            \o [r \in 1..rails |-> Line("row", JoinSpace(fence(r - 1)))]
                            \o <<FinalLine(res)>>)

-----------------------------------------------------------------------------
(* 11. Route *)

\* the cells <<i, j>> (from 0) in the order the spiral loop visits them;
\* b = [top, bottom, left, right]
RECURSIVE spiralLoop(_, _)
spiralLoop(b, acc) ==
    IF ~(b.top <= b.bottom /\ b.left <= b.right) THEN acc
    ELSE
        LET topRow   == [k \in 1..(b.right - b.left + 1) |-> <<b.top, b.left + k - 1>>]
            top1     == b.top + 1
            rightCol == IF top1 <= b.bottom
                        THEN [k \in 1..(b.bottom - top1 + 1) |-> <<top1 + k - 1, b.right>>]
                        ELSE << >>
            right1   == b.right - 1
            botRow   == IF top1 <= b.bottom /\ b.left <= right1
                        THEN [k \in 1..(right1 - b.left + 1) |-> <<b.bottom, right1 - k + 1>>]
                        ELSE << >>
            bottom1  == IF top1 <= b.bottom THEN b.bottom - 1 ELSE b.bottom
            leftCol  == IF b.left <= right1 /\ top1 <= bottom1
                        THEN [k \in 1..(bottom1 - top1 + 1) |-> <<bottom1 - k + 1, b.left>>]
                        ELSE << >>
            left1    == IF b.left <= right1 THEN b.left + 1 ELSE b.left
        IN  spiralLoop([top |-> top1, bottom |-> bottom1, left |-> left1, right |-> right1],
                       acc \o topRow \o rightCol \o botRow \o leftCol)

spiralOrder(rows, cols) ==
    spiralLoop([top |-> 0, bottom |-> rows - 1, left |-> 0, right |-> cols - 1], << >>)

\* the rows of a grid, as trace lines
gridLines(grid) == [i \in 1..Len(grid) |-> Line("row", JoinSpace(grid[i]))]

\* the grid read row by row, the cells holding ' ' skipped
readRowMajor(grid) ==
    ConcatTo(Len(grid), LAMBDA i : SelectSeq(grid[i], LAMBDA c : c # " "))

\* a rows x cols grid of ' ' filled row by row with the text
fillRowMajor(t, rows, cols) ==
    [i \in 1..rows |-> [j \in 1..cols |->
        IF (i - 1) * cols + j <= Len(t) THEN t[(i - 1) * cols + j] ELSE " "]]

\* a rows x cols grid of ' ' where the k-th cell of order (cells <<i, j>>
\* from 0, none twice) takes character k of the text while the text lasts
fillAlong(order, t, rows, cols) ==
    LET filled == Min(Len(t), Len(order))
    IN  [i \in 1..rows |-> [j \in 1..cols |->
            IF \E k \in 1..filled : order[k] = <<i - 1, j - 1>>
            THEN t[CHOOSE k \in 1..filled : order[k] = <<i - 1, j - 1>>]
            ELSE " "]]

routeCipher(t, rows, cols, enc, st) ==
    IF rows < 2 \/ cols < 2
    THEN Thrown("Number of rows and columns must be at least 2", st)
    ELSE
        LET st1   == st \o <<Line("Route Cipher",
                                  <<ModeName(enc), ToString(rows), ToString(cols)>>)>>
            order == spiralOrder(rows, cols)
        IN  IF enc
            THEN
                LET grid == fillRowMajor(t, rows, cols)
                    res  == [k \in 1..Len(order) |-> grid[order[k][1] + 1][order[k][2] + 1]]
                IN  Returned(res,
                        st1 \o <<Line("Grid arrangement:", << >>)>> \o gridLines(grid)
                            \o <<FinalLine(res)>>)
            ELSE
                LET \* the first characters of the text laid along the spiral
                    grid == fillAlong(order, t, rows, cols)
                    res  == readRowMajor(grid)
                IN  Returned(res,
                        st1 \o <<Line("Filled grid:", << >>)>> \o gridLines(grid)
                            \o <<FinalLine(res)>>)

-----------------------------------------------------------------------------
(* 12. Columnar *)

SeqMax(seq) == CHOOSE x \in {seq[k] : k \in 1..Len(seq)} : \A k \in 1..Len(seq) : seq[k] <= x

\* the columns j (from 1) whose key value is v, in ascending order
columnsOf(keyValues, v) ==
    SelectSeq([j \in 1..Len(keyValues) |-> j], LAMBDA j : keyValues[j] = v)

\* column j of the grid from top to bottom, the cells holding ' ' skipped
readColumn(grid, j) ==
    SelectSeq([i \in 1..Len(grid) |-> grid[i][j]], LAMBDA c : c # " ")

\* the length decryption gives column j (from 1)
colLength(keyOrder, textLen, j) ==
    LET keyLen        == Len(keyOrder)
        numRows       == Ceil(textLen, keyLen)
        lastRowLength == IF textLen % keyLen # 0 THEN textLen % keyLen ELSE keyLen
    IN  IF textLen % keyLen # 0 /\ keyOrder[j] > lastRowLength
        THEN numRows - 1 ELSE numRows

columnarCipher(t, k, enc, st) ==
    IF Len(k) = 0 THEN Thrown("Key cannot be empty", st)
    ELSE IF \E j \in 1..Len(k) : ~isDigit(k[j])
    THEN Thrown("Key must contain only digits", st)
    ELSE
        LET st1      == st \o <<Line("Columnar Transposition Cipher", <<ModeName(enc)>> \o k)>>
            keyOrder == [j \in 1..Len(k) |-> parseInt(k[j])]
            numRows  == Ceil(Len(t), Len(k))
            keyLine  == Line("Key", JoinSpace(k))
        IN  IF enc
            THEN
                LET grid == fillRowMajor(t, numRows, Len(k))
                    res  == ConcatTo(SeqMax(keyOrder), LAMBDA keyDigit :
                                LET columns == columnsOf(keyOrder, keyDigit)
                                IN  ConcatTo(Len(columns), LAMBDA c :
                                        readColumn(grid, columns[c])))
                IN  Returned(res,
                        st1 \o <<Line("Grid arrangement:", << >>), keyLine>> \o gridLines(grid)
                            \o <<FinalLine(res)>>)
            ELSE
                LET \* the cells in the order the ciphertext is laid into them
                    order == ConcatTo(SeqMax(keyOrder), LAMBDA keyDigit :
                                LET columns == columnsOf(keyOrder, keyDigit)
                                IN  ConcatTo(Len(columns), LAMBDA c :
                                        [i \in 1..colLength(keyOrder, Len(t), columns[c]) |->
                                            <<i - 1, columns[c] - 1>>]))
                    grid == fillAlong(order, t, numRows, Len(k))
                    res  == readRowMajor(grid)
                IN  Returned(res,
                        st1 \o <<Line("Filled grid:", << >>), keyLine>> \o gridLines(grid)
                            \o <<FinalLine(res)>>)

\* 13. Double Transposition

\* both passes taking the keys in the order of encryption
passKeySameOrder(pass, key1, key2, enc) == IF pass = 1 THEN key1 ELSE key2

\* the key of the first and of the second columnar pass
passKey(pass, key1, key2, enc) ==
    IF enc THEN (IF pass = 1 THEN key1 ELSE key2)
    ELSE (IF pass = 1 THEN key2 ELSE key1)

doubleTranspositionCipher(t, key1, key2, enc, st) ==
    IF Len(key1) = 0 \/ Len(key2) = 0 THEN Thrown("Both keys cannot be empty", st)
    ELSE IF (\E j \in 1..Len(key1) : ~isDigit(key1[j])) \/ (\E j \in 1..Len(key2) : ~isDigit(key2[j]))
    THEN Thrown("Keys must contain only digits", st)
    ELSE
        LET st1 == st \o <<Line("Double Transposition Cipher",
                                <<ModeName(enc)>> \o key1 \o <<"and">> \o key2)>>
            firstResult ==
                columnarCipher(t, passKey(1, key1, key2, enc), enc,
                               st1 \o <<Line("First transposition", << >>)>>)
            finalResult ==
                columnarCipher(firstResult.out, passKey(2, key1, key2, enc), enc,
                               firstResult.steps \o <<Line("Second transposition", << >>)>>)
        IN  Returned(finalResult.out, finalResult.steps \o <<FinalLine(finalResult.out)>>)

-----------------------------------------------------------------------------
(* 14. Myszkowski *)

\* [...new Set(processedKey)].sort(): the distinct characters in code order
RECURSIVE sortedChars(_)
sortedChars(S) ==
    IF S = {} THEN << >>
    ELSE LET least == CHOOSE c \in S : \A d \in S : charCodeAt(c) <= charCodeAt(d)
         IN  <<least>> \o sortedChars(S \ {least})

myszkowskiCipher(t, k, enc, st) ==
    IF Len(k) = 0 THEN Thrown("Key cannot be empty", st)
    ELSE LET processedKey == processKey(k) IN
         IF Len(processedKey) = 0 THEN Thrown("Key must contain at least one letter", st)
         ELSE
            LET st1 == st \o <<Line("Myszkowski Transposition Cipher",
                                    <<ModeName(enc)>> \o processedKey)>>
                keyLen      == Len(processedKey)
                uniqueChars == sortedChars({processedKey[j] : j \in 1..keyLen})
                keyValues   == [j \in 1..keyLen |-> IndexOf(uniqueChars, processedKey[j])]
                numRows     == Ceil(Len(t), keyLen)
                keyLines    == <<Line("Key", JoinSpace(processedKey)),
                                 Line("Numeric values",
                                      JoinSpace([j \in 1..keyLen |-> ToString(keyValues[j])]))>>
                \* for each key value in turn, its columns row by row
                order == ConcatTo(Len(uniqueChars), LAMBDA keyValue :
                            LET columns == columnsOf(keyValues, keyValue)
                            IN  ConcatTo(numRows, LAMBDA i :
                                    [c \in 1..Len(columns) |-> <<i - 1, columns[c] - 1>>]))
            IN  IF enc
                THEN
                    LET grid == fillRowMajor(t, numRows, keyLen)
                        res  == SelectSeq(
                                    [n \in 1..Len(order) |->
                                        grid[order[n][1] + 1][order[n][2] + 1]],
                                    LAMBDA c : c # " ")
                    IN  Returned(res,
                            st1 \o <<Line("Grid arrangement:", << >>)>> \o keyLines
                                \o gridLines(grid) \o <<FinalLine(res)>>)
                ELSE
                    LET grid == fillAlong(order, t, numRows, keyLen)
                        res  == readRowMajor(grid)
                    IN  Returned(res,
                            st1 \o <<Line("Filled grid:", << >>)>> \o keyLines
                                \o gridLines(grid) \o <<FinalLine(res)>>)

-----------------------------------------------------------------------------
(* 15. Grilles *)

isSpace(c) == c \in {" ", "\n"}

\* mask.trim()
RECURSIVE trim(_)
trim(m) ==
    IF Len(m) = 0 THEN m
    ELSE IF isSpace(m[1]) THEN trim(Tail(m))
    ELSE IF isSpace(m[Len(m)]) THEN trim(SubSeq(m, 1, Len(m) - 1))
    ELSE m

\* m.split('\n'): the pieces between the line breaks (one piece at least)
RECURSIVE splitLines(_)
splitLines(m) ==
    IF \E p \in 1..Len(m) : m[p] = "\n"
    THEN LET p == CHOOSE q \in 1..Len(m) : m[q] = "\n" /\ \A r \in 1..(q - 1) : m[r] # "\n"
         IN  <<SubSeq(m, 1, p - 1)>> \o splitLines(SubSeq(m, p + 1, Len(m)))
    ELSE <<m>>

\* the cells <<i, j>> (from 0) of the holes of the grille, row by row
holes(grille, rows, cols) ==
    SelectSeq([n \in 1..(rows * cols) |-> <<(n - 1) \div cols, (n - 1) % cols>>],
              LAMBDA cell : grille[cell[1] + 1][cell[2] + 1])

\* the update of the grille after a rotation reads rotatedGrille[i][j] for
\* i < rows and j < cols, and rotatedGrille has cols rows of rows cells:
\* reading a cell of a row that does not exist throws
rotationThrows(rows, cols) == rows > cols /\ cols > 0

\* the grille after the update: rotatedGrille[j][rows - 1 - i] = grille[i][j];
\* a cell read past the end of a row of rotatedGrille is undefined: no hole
rotateGrille(grille, rows, cols) ==
    [i \in 1..rows |-> [j \in 1..cols |->
        IF j > rows THEN FALSE ELSE grille[rows - j + 1][i]]]

\* the rows of the grid joined by line breaks, as one trace line
gridState(grid) ==
    Line("grid", ConcatTo(Len(grid), LAMBDA i :
                     IF i = 1 THEN JoinSpace(grid[i]) ELSE <<"\n">> \o JoinSpace(grid[i])))

\* the loop that writes the text through the holes;
\* acc = [grille, grid, textIndex, lines, thrown]
RECURSIVE grilleWrite(_, _, _, _, _)
grilleWrite(t, rows, cols, rotation, acc) ==
    IF ~(rotation < 4 /\ acc.textIndex < Len(t)) THEN acc
    ELSE
        LET hs     == holes(acc.grille, rows, cols)
            placed == Min(Len(hs), Len(t) - acc.textIndex)
            grid   == [i \in 1..rows |-> [j \in 1..cols |->
                          IF \E n \in 1..placed : hs[n] = <<i - 1, j - 1>>
                          THEN t[acc.textIndex
                                 + (CHOOSE n \in 1..placed : hs[n] = <<i - 1, j - 1>>)]
                          ELSE acc.grid[i][j]]]
            lines  == acc.lines \o <<Line("Rotation", <<ToString(rotation * 90)>>),
                                     gridState(grid)>>
        IN  IF rotationThrows(rows, cols)
            THEN [acc EXCEPT !.grid = grid, !.textIndex = acc.textIndex + placed,
                             !.lines = lines, !.thrown = TRUE]
            ELSE grilleWrite(t, rows, cols, rotation + 1,
                     [grille |-> rotateGrille(acc.grille, rows, cols), grid |-> grid,
                      textIndex |-> acc.textIndex + placed, lines |-> lines,
                      thrown |-> FALSE])

\* the loop that reads the grid through the holes;
\* acc = [grille, result, lines, thrown]
RECURSIVE grilleRead(_, _, _, _, _)
grilleRead(grid, rows, cols, rotation, acc) ==
    IF ~(rotation < 4) THEN acc
    ELSE
        LET hs   == SelectSeq(holes(acc.grille, rows, cols),
                              LAMBDA cell : grid[cell[1] + 1][cell[2] + 1] # " ")
            read == [n \in 1..Len(hs) |-> grid[hs[n][1] + 1][hs[n][2] + 1]]
            lines == acc.lines \o <<Line("Rotation", <<ToString(rotation * 90)>>)>>
                        \o [n \in 1..Len(hs) |->
                               Line("Reading", <<read[n], ToString(hs[n][1]), ToString(hs[n][2])>>)]
        IN  IF rotationThrows(rows, cols)
            THEN [acc EXCEPT !.result = acc.result \o read, !.lines = lines, !.thrown = TRUE]
            ELSE grilleRead(grid, rows, cols, rotation + 1,
                     [grille |-> rotateGrille(acc.grille, rows, cols),
                      result |-> acc.result \o read, lines |-> lines, thrown |-> FALSE])

\* textTooLong that allows one rotation only
textTooLongOneRotation(t, count) == Len(t) > count

\* text.length > holeCount * 4
textTooLong(t, count) == Len(t) > count * 4

grillesCipher(t, mask, enc, st) ==
    LET maskRows == splitLines(trim(mask))
        rows     == Len(maskRows)
        cols     == Len(maskRows[1])
    IN  IF \E r \in 1..rows : Len(maskRows[r]) # cols
        THEN Thrown("Mask must be a rectangular grid", st)
        ELSE
            LET grille == [i \in 1..rows |-> [j \in 1..cols |-> maskRows[i][j] = "1"]]
                st1 == st \o <<Line("Grilles Cipher",
                                    <<ModeName(enc), ToString(rows), ToString(cols)>>),
                               Line("Grille pattern (1 = hole, 0 = solid):", << >>)>>
                          \o [r \in 1..rows |-> Line("row", maskRows[r])]
                blank == [i \in 1..rows |-> [j \in 1..cols |-> " "]]
            IN  IF enc
                THEN
                    LET holeCount == Len(holes(grille, rows, cols))
                    IN  IF textTooLong(t, holeCount)
                        THEN Thrown("Text is too long for this grille", st1)
                        ELSE
                            LET done == grilleWrite(t, rows, cols, 0,
                                            [grille |-> grille, grid |-> blank, textIndex |-> 0,
                                             lines |-> st1, thrown |-> FALSE])
                                res  == readRowMajor(done.grid)
                            IN  IF done.thrown THEN Thrown("TypeError", done.lines)
                                ELSE Returned(res, done.lines \o <<FinalLine(res)>>)
                ELSE
                    LET grid == fillRowMajor(t, rows, cols)
                        done == grilleRead(grid, rows, cols, 0,
                                    [grille |-> grille, result |-> << >>,
                                     lines |-> st1 \o <<Line("Filled grid:", << >>),
                                                        gridState(grid)>>,
                                     thrown |-> FALSE])
                    IN  IF done.thrown THEN Thrown("TypeError", done.lines)
                        ELSE Returned(done.result, done.lines \o <<FinalLine(done.result)>>)

-----------------------------------------------------------------------------
(* The caller: any code that calls an exported cipher function.  It        *)
(* chooses the function, the key arguments and the text, passes its steps    *)
(* array, and may hand the returned string back as the text of a second      *)
(* call.  The keys are arguments of the call: for hillCipher,                *)
(* doubleTranspositionCipher and grillesCipher they range over the sets of   *)
(* each specification, the values the page passes among them.  After a throw *)
(* steps is the array the cipher was given, with the lines pushed before     *)
(* the throw.                                                                *)

MaxTextLen == 2

\* the texts of at most n characters of S
TextsOver(S, n) == UNION {[1..m -> S] : m \in 0..n}

UpperLetters == {fromCharCode(n) : n \in 65..90}

LowerLetters == {fromCharCode(n) : n \in 97..122}

\* one upper-case letter, one lower-case letter, one digit, and two
\* characters that are no letters
MixedChars == {"B", "y", "7", " ", "!"}

OneLetterTexts == {<<c>> : c \in UpperLetters \cup LowerLetters}

MixedTexts == TextsOver(MixedChars, MaxTextLen)

Key(a, b, str, str2, matrix, rows, cols) ==
    [a |-> a, b |-> b, str |-> str, str2 |-> str2, matrix |-> matrix,
     rows |-> rows, cols |-> cols]

NumKey(a, b) == Key(a, b, << >>, << >>, << >>, 0, 0)

StrKey(str) == Key(0, 0, str, << >>, << >>, 0, 0)

Input(a, k, t) == [algo |-> a, key |-> k, text |-> t]

Start(in) ==
    /\ algo = in.algo
    /\ key = in.key
    /\ text = in.text
    /\ plain = in.text
    /\ encrypt = TRUE
    /\ result = << >>
    /\ error = NoError
    /\ steps = << >>
    /\ history = << >>
    /\ pc = "input"

CanCall == pc \in {"input", "swapped"}

\* the caller takes the outcome r of a call made in mode enc
Outcome(r, enc) ==
    /\ result' = r.out
    /\ error' = r.error
    /\ steps' = r.steps
    /\ encrypt' = enc
    /\ history' = Append(history, [mode |-> enc, error |-> r.error])
    /\ pc' = IF pc = "input" THEN "output" ELSE "done"
    /\ UNCHANGED <<algo, key, text, plain>>

CallAtbash ==
    /\ CanCall /\ algo = "atbash"
    /\ Outcome(atbashCipher(text, steps), encrypt)

CallCaesar ==
    /\ CanCall /\ algo = "caesar"
    /\ \E enc \in BOOLEAN : Outcome(caesarCipher(text, key.a, enc, steps), enc)

CallAffine ==
    /\ CanCall /\ algo = "affine"
    /\ \E enc \in BOOLEAN : Outcome(affineCipher(text, key.a, key.b, enc, steps), enc)

CallVigenere ==
    /\ CanCall /\ algo = "vigenere"
    /\ \E enc \in BOOLEAN : Outcome(vigenereCipher(text, key.str, enc, steps), enc)

CallGronsfeld ==
    /\ CanCall /\ algo = "gronsfeld"
    /\ \E enc \in BOOLEAN : Outcome(gronsfeldCipher(text, key.str, enc, steps), enc)

CallBeaufort ==
    /\ CanCall /\ algo = "beaufort"
    /\ Outcome(beaufortCipher(text, key.str, steps), encrypt)

CallAutoKey ==
    /\ CanCall /\ algo = "autokey"
    /\ \E enc \in BOOLEAN : Outcome(autoKeyCipher(text, key.str, enc, steps), enc)

CallRunningKey ==
    /\ CanCall /\ algo = "running"
    /\ \E enc \in BOOLEAN : Outcome(runningKeyCipher(text, key.str, enc, steps), enc)

CallHill ==
    /\ CanCall /\ algo = "hill"
    /\ \E enc \in BOOLEAN : Outcome(hillCipher(text, key.matrix, enc, steps), enc)

CallRailFence ==
    /\ CanCall /\ algo = "railfence"
    /\ \E enc \in BOOLEAN : Outcome(railFenceCipher(text, key.rows, enc, steps), enc)

CallRoute ==
    /\ CanCall /\ algo = "route"
    /\ \E enc \in BOOLEAN : Outcome(routeCipher(text, key.rows, key.cols, enc, steps), enc)

CallColumnar ==
    /\ CanCall /\ algo = "columnar"
    /\ \E enc \in BOOLEAN : Outcome(columnarCipher(text, key.str, enc, steps), enc)

CallDoubleTransposition ==
    /\ CanCall /\ algo = "double"
    /\ \E enc \in BOOLEAN :
          Outcome(doubleTranspositionCipher(text, key.str, key.str2, enc, steps), enc)

CallMyszkowski ==
    /\ CanCall /\ algo = "myszkowski"
    /\ \E enc \in BOOLEAN : Outcome(myszkowskiCipher(text, key.str, enc, steps), enc)

CallGrilles ==
    /\ CanCall /\ algo = "grilles"
    /\ \E enc \in BOOLEAN : Outcome(grillesCipher(text, key.str, enc, steps), enc)

\* the returned string becomes the text of the next call, with a fresh sink
SwapTexts ==
    /\ pc = "output"
    /\ text' = result
    /\ result' = << >>
    /\ steps' = << >>
    /\ error' = NoError
    /\ pc' = "swapped"
    /\ UNCHANGED <<algo, key, encrypt, plain, history>>

\* the last two calls were an encryption and the decryption of what it returned
RoundTripDone ==
    /\ pc = "done"
    /\ history[1] = [mode |-> TRUE, error |-> NoError]
    /\ history[2] = [mode |-> FALSE, error |-> NoError]

-----------------------------------------------------------------------------
(* Substitution family: Atbash, Caesar, Affine *)

\* keys below 0, 0, multiples of 26 and keys above 26
CaesarKeys == (0 - 27)..53

CaesarFewKeys == {0 - 27, 0 - 1, 0, 3, 26, 29}

AffineAs == (0 - 27)..29

CoprimeAs == {1, 3, 5, 7, 9, 11, 15, 17, 19, 21, 23, 25}

AffineBs == {0 - 27, 0 - 1, 0, 8, 25, 26, 30}

\* the text of the documented example of Caesar
Hello == <<"H", "e", "l", "l", "o">>

InitSubst ==
    \/ \E t \in OneLetterTexts \cup MixedTexts : Start(Input("atbash", NumKey(0, 0), t))
    \/ \E k \in CaesarKeys, t \in OneLetterTexts : Start(Input("caesar", NumKey(k, 0), t))
    \/ \E k \in CaesarFewKeys, t \in MixedTexts : Start(Input("caesar", NumKey(k, 0), t))
    \/ Start(Input("caesar", NumKey(3, 0), Hello))
    \/ \E a \in CoprimeAs, b \in AffineBs, t \in OneLetterTexts :
            Start(Input("affine", NumKey(a, b), t))
    \/ \E a \in AffineAs, b \in {0 - 1, 8}, t \in MixedTexts :
            Start(Input("affine", NumKey(a, b), t))

NextSubst == CallAtbash \/ CallCaesar \/ CallAffine \/ SwapTexts

SpecSubst == InitSubst /\ [][NextSubst]_vars

\* a has no common divisor with 26 = 2 * 13: the condition of the properties,
\* for every integer a.  The ciphers test gcd(a, 26) = 1 with gcd as written,
\* which is -1 for some negative a.
Coprime26(a) == a % 2 # 0 /\ a % 13 # 0

hasLetter(t) == \E i \in 1..Len(t) : isLetter(t[i])

\* C7: for every integer a and every b, the first affineCipher call fails with
\* the invalid-key error when a is not coprime with 26 and succeeds, in either
\* mode, when a is coprime with 26.
C7_AffineKeyValidation ==
    (algo = "affine" /\ pc = "output") =>
        IF Coprime26(key.a) THEN error = NoError
        ELSE error = "Key A must be coprime with 26"

\* C8: for every a in {1,3,5,7,9,11,15,17,19,21,23,25}, every integer b and
\* every text, affineCipher in encrypt mode followed by affineCipher in decrypt
\* mode on the returned string succeeds and returns the text.
C8_AffineRoundTrip ==
    (algo = "affine" /\ key.a \in CoprimeAs /\ pc = "done"
        /\ history[1].mode /\ ~history[2].mode) =>
            /\ history[1].error = NoError
            /\ error = NoError
            /\ result = plain

C8_Witness ==
    /\ algo = "affine" /\ RoundTripDone
    /\ key.a = 7 /\ key.b < 0
    /\ plain = <<"y">> /\ text # plain /\ result = plain

\* C9: for every integer key k (negative, zero, multiples of 26 and above 26)
\* and every text, caesarCipher in encrypt mode followed by caesarCipher in
\* decrypt mode on the returned string returns the text; the key shown in the
\* trace is the key reduced into [0,26).
C9_CaesarRoundTrip ==
    (algo = "caesar" /\ pc = "done" /\ history[1].mode /\ ~history[2].mode) =>
        /\ error = NoError
        /\ result = plain
        /\ steps[1].txt[2] = ToString(key.a % 26)

C9_Witness ==
    /\ algo = "caesar" /\ RoundTripDone
    /\ key.a < 0 /\ key.a % 26 # 0
    /\ hasLetter(plain) /\ text # plain /\ result = plain

-----------------------------------------------------------------------------
(* Polyalphabetic family: Vigenere, Gronsfeld, Beaufort, Auto Key,          *)
(* Running Key                                                              *)

MaxPolyTextLen == 3

MaxKeyLen == 2

PolyAlgos == {"vigenere", "gronsfeld", "beaufort", "autokey", "running"}

\* an upper-case letter, a lower-case letter and a character that is no letter
PolyTexts == TextsOver({"B", "y", "!"}, MaxPolyTextLen)

\* two letters, a digit and a character that is neither
PolyKeys == TextsOver({"c", "Z", "2", "-"}, MaxKeyLen)

\* every shift: the keys of one upper-case letter and of one digit
OneSymbolKeys == {<<c>> : c \in UpperLetters} \cup {<<fromCharCode(n)>> : n \in 48..57}

InitPoly ==
    \/ \E a \in PolyAlgos, k \in PolyKeys, t \in PolyTexts : Start(Input(a, StrKey(k), t))
    \/ \E a \in PolyAlgos, k \in OneSymbolKeys, t \in OneLetterTexts :
            Start(Input(a, StrKey(k), t))

NextPoly ==
    CallVigenere \/ CallGronsfeld \/ CallBeaufort \/ CallAutoKey \/ CallRunningKey
        \/ SwapTexts

SpecPoly == InitPoly /\ [][NextPoly]_vars

\* the key keeps at least one valid symbol after filtering
ValidPolyKey ==
    IF algo = "gronsfeld" THEN Len(digitsOnly(key.str)) > 0
    ELSE Len(processKey(key.str)) > 0

\* C10: for Vigenere, Gronsfeld and Running Key, for every key that keeps at
\* least one valid symbol after filtering and every text, the encrypt call
\* followed by the decrypt call on the returned string, with the same key,
\* succeeds and returns the text exactly.
C10_CyclingKeyRoundTrip ==
    (algo \in {"vigenere", "gronsfeld", "running"} /\ ValidPolyKey /\ pc = "done"
        /\ history[1].mode /\ ~history[2].mode) =>
            /\ history[1].error = NoError
            /\ error = NoError
            /\ result = plain

\* a key of one symbol after filtering is cycled over a text of two letters,
\* one of each case, around a character that is no letter
C10_Witness ==
    /\ algo = "running" /\ RoundTripDone
    /\ key.str = <<"c", "-">>
    /\ plain = <<"B", "!", "y">>
    /\ text = <<"D", "!", "a">>
    /\ result = plain

\* the extended key fullKey at the end of the Auto Key loop over t
autoKeyFullKey(t, k, enc) ==
    autoKeyLoop(t, 1, enc, [fullKey |-> processKey(k), result |-> << >>,
                            lines |-> << >>]).fullKey

\* C11: for every key with at least one letter and every text, the Auto Key
\* decryption of the encryption, with the same key, returns the text, and
\* the decryption builds the extended key that the encryption built.
C11_AutoKeyRoundTrip ==
    (algo = "autokey" /\ ValidPolyKey /\ pc = "done"
        /\ history[1].mode /\ ~history[2].mode) =>
            /\ history[1].error = NoError
            /\ error = NoError
            /\ result = plain
            /\ autoKeyFullKey(text, key.str, FALSE) = autoKeyFullKey(plain, key.str, TRUE)

\* a text longer than the key, with a character that is no letter: the
\* second letter is shifted by the first letter of the text
C11_Witness ==
    /\ algo = "autokey" /\ RoundTripDone
    /\ key.str = <<"c">>
    /\ plain = <<"B", "!", "y">>
    /\ text = <<"D", "!", "z">>
    /\ result = plain

-----------------------------------------------------------------------------
(* Polygraphic cipher: Hill *)

MaxHillTextLen == 3

HillEntries == {0 - 1, 3, 5, 8}

\* the 2x2 matrices over HillEntries, the matrix of the application, the
\* identity, and a matrix that is not 2x2
HillMatrices ==
    {<< <<a, b>>, <<c, d>> >> : a \in HillEntries, b \in HillEntries,
                                c \in HillEntries, d \in HillEntries}
    \cup {<< <<5, 8>>, <<3, 7>> >>, << <<1, 0>>, <<0, 1>> >>, << <<1, 2, 3>>, <<4, 5, 6>> >>}

HillTexts == TextsOver({"B", "y", "!"}, MaxHillTextLen)

MatrixKey(m) == Key(0, 0, << >>, << >>, m, 0, 0)

InitHill == \E m \in HillMatrices, t \in HillTexts : Start(Input("hill", MatrixKey(m), t))

NextHill == CallHill \/ SwapTexts

SpecHill == InitHill /\ [][NextHill]_vars

\* the upper-cased letters of t, padded with 'X' to even length
HillProjection(t) ==
    LET letters == lettersOnly(upperText(t))
    IN  IF Len(letters) % 2 = 0 THEN letters ELSE Append(letters, "X")

\* C4: for every valid 2x2 key matrix and every text, the letters of the
\* decryption of the encryption, upper-cased, are the upper-cased letters of
\* the text padded with 'X' to even length.
C4_HillRoundTripProjection ==
    (algo = "hill" /\ RoundTripDone) =>
        lettersOnly(upperText(result)) = HillProjection(plain)

-----------------------------------------------------------------------------
(* Transposition family: Rail Fence, Route, Columnar, Double Transposition, *)
(* Myszkowski                                                               *)

MaxTransTextLen == 3

MaxDistinctLen == 7

MaxDigitKeyLen == 3

MaxLetterKeyLen == 3

MaxRails == 4

MaxSide == 3

HelloWorld == <<"H", "E", "L", "L", "O", "W", "O", "R", "L", "D">>

WeAreDiscovered ==
    <<"W", "E", "A", "R", "E", "D", "I", "S", "C", "O", "V", "E", "R", "E", "D",
      "F", "L", "E", "E", "A", "T", "O", "N", "C", "E">>

\* the first n letters of the alphabet: no character twice
DistinctText(n) == [i \in 1..n |-> fromCharCode(96 + i)]

\* short texts with a space and a repeated letter, texts of distinct
\* letters, and the texts of the documented examples
TransTexts ==
    TextsOver({"a", "b", " "}, MaxTransTextLen)
    \cup {DistinctText(n) : n \in 0..MaxDistinctLen}
    \cup {HelloWorld, WeAreDiscovered}

\* keys of the digits 1..3, keys with the digit 0, the keys of the
\* application, and a key that is not made of digits
DigitKeys ==
    TextsOver({"1", "2", "3"}, MaxDigitKeyLen)
    \cup {<<"0">>, <<"1", "0">>, <<"0", "2", "1">>,
          <<"3", "1", "2", "4">>, <<"2", "4", "1", "3">>, <<"1", "a">>}

\* keys with a letter in both cases, and keys without any letter
LetterKeys == TextsOver({"A", "b", "B"}, MaxLetterKeyLen) \cup {<<"1">>, <<"c", "-", "a">>}

DoubleKeys == {<< >>, <<"2", "1">>, <<"1", "3", "2">>, <<"3", "1", "2", "4">>,
               <<"2", "4", "1", "3">>, <<"1", "a">>}

GridKey(rows, cols) == Key(0, 0, << >>, << >>, << >>, rows, cols)

TwoKeys(k1, k2) == Key(0, 0, k1, k2, << >>, 0, 0)

InitTrans ==
    \/ \E r \in 1..MaxRails, t \in TransTexts : Start(Input("railfence", GridKey(r, 0), t))
    \/ \E r \in 1..MaxSide, c \in 1..MaxSide, t \in TransTexts :
            Start(Input("route", GridKey(r, c), t))
    \/ \E k \in DigitKeys, t \in TransTexts : Start(Input("columnar", StrKey(k), t))
    \/ \E k1 \in DoubleKeys, k2 \in DoubleKeys, t \in TransTexts :
            Start(Input("double", TwoKeys(k1, k2), t))
    \/ \E k \in LetterKeys, t \in TransTexts : Start(Input("myszkowski", StrKey(k), t))

NextTrans ==
    CallRailFence \/ CallRoute \/ CallColumnar \/ CallDoubleTransposition
        \/ CallMyszkowski \/ SwapTexts

SpecTrans == InitTrans /\ [][NextTrans]_vars

\* the text holds no space character (the blank of the grid cells)
NoSpace(t) == \A i \in 1..Len(t) : t[i] # " "

\* C1: for every non-empty digit-only key and every text, columnarCipher in
\* encrypt mode followed by columnarCipher in decrypt mode on the returned
\* string returns the text, also when the last grid row is short.  Stated
\* for the texts without a space character, which the claim covers.
C1_ColumnarRoundTrip ==
    (algo = "columnar" /\ RoundTripDone /\ NoSpace(plain)) => result = plain

\* C2: with key "3124" and text "HELLOWORLD" encryption reads the columns in
\* ascending key-digit order (E W D, L O, H O L, L R), and decrypting the
\* ciphertext with the same key returns "HELLOWORLD".
C2_ColumnarLiteral ==
    (algo = "columnar" /\ key.str = <<"3", "1", "2", "4">> /\ plain = HelloWorld
        /\ pc \in {"swapped", "done"} /\ history[1].mode) =>
            /\ history[1].error = NoError
            /\ text = <<"E", "W", "D", "L", "O", "H", "O", "L", "L", "R">>
            /\ (pc = "done" /\ ~history[2].mode => result = HelloWorld)

\* C3: for every key with at least one letter and every text,
\* myszkowskiCipher in encrypt mode followed by myszkowskiCipher in decrypt
\* mode on the returned string returns the text, also when the last grid row
\* is only partly filled.  Stated for the texts without a space character,
\* which the claim covers.
C3_MyszkowskiRoundTrip ==
    (algo = "myszkowski" /\ RoundTripDone /\ NoSpace(plain)) => result = plain

\* C6: for every rows >= 2, cols >= 2 and every text, routeCipher in encrypt
\* mode followed by routeCipher in decrypt mode on the returned string returns
\* the text.
C6_RouteRoundTrip ==
    (algo = "route" /\ RoundTripDone) => result = plain

-----------------------------------------------------------------------------
(* Grille *)

MaxGrilleSide == 2

MaxGrilleTextLen == 4

\* the mask string of a grid of "0" and "1": its rows joined by line breaks
MaskText(g) ==
    ConcatTo(Len(g), LAMBDA i : IF i = 1 THEN g[i] ELSE <<"\n">> \o g[i])

\* the mask of the application: one hole in each row of a 4 by 4 grid
AppMask ==
    MaskText(<<<<"1", "0", "0", "0">>, <<"0", "0", "0", "1">>,
               <<"0", "0", "1", "0">>, <<"0", "1", "0", "0">>>>)

\* every mask of at most MaxGrilleSide rows and columns, the mask of the
\* application, a mask between blanks, and a mask whose rows differ in length
GrilleMasks ==
    {MaskText(g) : g \in UNION {[1..r -> [1..c -> {"0", "1"}]] :
                                   r \in 1..MaxGrilleSide, c \in 1..MaxGrilleSide}}
    \cup {AppMask,
          <<" ", "0", "1", "\n", "0", "0", "\n">>,
          <<"1", "0", "\n", "1">>}

\* texts of distinct letters, texts with a space, and a text that fills the
\* four rotations of the mask of the application
GrilleTexts ==
    {DistinctText(n) : n \in 0..(MaxGrilleTextLen + 1)}
    \cup {<<"a", " ">>, <<" ", "b", "c">>, DistinctText(16)}

InitGrille == \E m \in GrilleMasks, t \in GrilleTexts : Start(Input("grilles", StrKey(m), t))

NextGrille == CallGrilles \/ SwapTexts

SpecGrille == InitGrille /\ [][NextGrille]_vars

\* the holes of the mask string m as the cipher counts them
holeCount(m) ==
    LET maskRows == splitLines(trim(m))
    IN  Len(SelectSeq(Flatten(maskRows), LAMBDA c : c = "1"))

\* C5: for every mask M and every text of at most 4 * holeCount(M)
\* characters, grillesCipher in encrypt mode followed by grillesCipher in
\* decrypt mode on the returned string returns the text, also for texts
\* shorter than the number of grid cells.
C5_GrilleSymmetry ==
    (algo = "grilles" /\ pc = "done" /\ history[1].mode /\ ~history[2].mode
        /\ Len(plain) <= 4 * holeCount(key.str)) =>
            /\ history[1].error = NoError
            /\ error = NoError
            /\ result = plain

-----------------------------------------------------------------------------
(* The substitution and polyalphabetic families together *)

InitLetters == InitSubst \/ InitPoly

NextLetters == NextSubst \/ NextPoly

SpecLetters == InitLetters /\ [][NextLetters]_vars

\* the call the caller makes for algorithm a: key k, text t, mode enc, sink st
Cipher(a, k, t, enc, st) ==
    CASE a = "atbash"     -> atbashCipher(t, st)
      [] a = "caesar"     -> caesarCipher(t, k.a, enc, st)
      [] a = "affine"     -> affineCipher(t, k.a, k.b, enc, st)
      [] a = "vigenere"   -> vigenereCipher(t, k.str, enc, st)
      [] a = "gronsfeld"  -> gronsfeldCipher(t, k.str, enc, st)
      [] a = "beaufort"   -> beaufortCipher(t, k.str, st)
      [] a = "autokey"    -> autoKeyCipher(t, k.str, enc, st)
      [] a = "running"    -> runningKeyCipher(t, k.str, enc, st)
      [] a = "hill"       -> hillCipher(t, k.matrix, enc, st)
      [] a = "railfence"  -> railFenceCipher(t, k.rows, enc, st)
      [] a = "route"      -> routeCipher(t, k.rows, k.cols, enc, st)
      [] a = "columnar"   -> columnarCipher(t, k.str, enc, st)
      [] a = "double"     -> doubleTranspositionCipher(t, k.str, k.str2, enc, st)
      [] a = "myszkowski" -> myszkowskiCipher(t, k.str, enc, st)
      [] a = "grilles"    -> grillesCipher(t, k.str, enc, st)

\* a call has returned: text is what it was given, result what it returned
CallReturned == pc \in {"output", "done"} /\ error = NoError

\* C12: atbashCipher applied to what atbashCipher returned gives the text
\* back, and beaufortCipher applied with the same key to what beaufortCipher
\* returned gives the text back, for every text and every key with at least
\* one letter.
C12_SelfReciprocal ==
    (algo \in {"atbash", "beaufort"} /\ pc = "done"
        /\ (algo = "beaufort" => ValidPolyKey)) =>
            /\ history[1].error = NoError
            /\ error = NoError
            /\ result = plain

\* Beaufort with a key of two letters, one in lower case, on a text of two
\* letters of different case around a character that is no letter
C12_Witness ==
    /\ algo = "beaufort" /\ pc = "done"
    /\ key.str = <<"Z", "c">>
    /\ plain = <<"B", "!", "y">>
    /\ text = <<"Y", "!", "e">>
    /\ result = plain

\* C15: for every substitution and polyalphabetic cipher, every valid key
\* and both modes, the returned string is as long as the text and every
\* character that is no letter stands unchanged at its index.
C15_Passthrough ==
    CallReturned =>
        /\ Len(result) = Len(text)
        /\ \A i \in 1..Len(text) : ~isLetter(text[i]) => result[i] = text[i]

\* Affine maps the letter and leaves the character after it as it is
C15_Witness ==
    /\ algo = "affine" /\ pc = "output" /\ encrypt /\ error = NoError
    /\ key.a = 5 /\ key.b = 8
    /\ text = <<"B", "!">>
    /\ result = <<"N", "!">>

lowerText(t) == [i \in 1..Len(t) |-> toLowerCase(t[i])]

\* C16: for every substitution and polyalphabetic cipher an upper-case letter
\* maps to an upper-case letter and a lower-case letter to a lower-case
\* letter, and the cipher of the lower-cased text is the lower-cased cipher
\* of the text; caesarCipher("Hello", 3, encrypt) returns "Khoor".
C16_CaseIndependence ==
    /\ CallReturned =>
            /\ \A i \in 1..Len(text) :
                    /\ isUpper(text[i]) => isUpper(result[i])
                    /\ isLower(text[i]) => isLower(result[i])
            /\ Cipher(algo, key, lowerText(text), encrypt, << >>).out = lowerText(result)
    /\ (algo = "caesar" /\ key.a = 3 /\ text = Hello /\ pc = "output" /\ encrypt) =>
            result = <<"K", "h", "o", "o", "r">>

\* the documented example of Caesar has been encrypted
C16_Witness ==
    /\ algo = "caesar" /\ key.a = 3 /\ pc = "output" /\ encrypt
    /\ text = Hello
    /\ result = <<"K", "h", "o", "o", "r">>

-----------------------------------------------------------------------------
(* Rail Fence *)

\* a and b hold the same characters the same number of times
Permutation(a, b) ==
    /\ Len(a) = Len(b)
    /\ \A i \in 1..Len(a) :
           Cardinality({j \in 1..Len(a) : a[j] = a[i]})
               = Cardinality({j \in 1..Len(b) : b[j] = a[i]})

\* C13: for every rails >= 2 and every text, railFenceCipher in encrypt mode
\* followed by railFenceCipher in decrypt mode on the returned string
\* returns the text, and the ciphertext is a permutation of the characters
\* of the text.
C13_RailFenceRoundTrip ==
    (algo = "railfence" /\ key.rows >= 2 /\ pc = "done"
        /\ history[1].mode /\ ~history[2].mode) =>
            /\ history[1].error = NoError
            /\ error = NoError
            /\ Permutation(text, plain)
            /\ result = plain

\* seven distinct letters on three rails: a e / b d f / c g
C13_Witness ==
    /\ algo = "railfence" /\ key.rows = 3 /\ RoundTripDone
    /\ plain = DistinctText(7)
    /\ text = <<"a", "e", "b", "d", "f", "c", "g">>
    /\ result = plain

\* the ciphertext of the documented example
WeAreDiscoveredOnThreeRails ==
    <<"W", "E", "C", "R", "L", "T", "E", "E", "R", "D", "S", "O", "E", "E", "F",
      "E", "A", "O", "C", "A", "I", "V", "D", "E", "N">>

\* C14: railFenceCipher("WEAREDISCOVEREDFLEEATONCE", 3, encrypt) returns
\* "WECRLTEERDSOEEFEAOCAIVDEN"; in every encryption character i is on the
\* rail of the zig-zag that bounces between rail 0 and rail rails - 1, and
\* the rails are concatenated from the top.
C14_RailFenceLiteral ==
    (algo = "railfence" /\ pc = "output" /\ encrypt /\ error = NoError) =>
        /\ (key.rows = 3 /\ text = WeAreDiscovered =>
                result = WeAreDiscoveredOnThreeRails)
        /\ \A i \in 1..Len(text) :
               LET period == 2 * (key.rows - 1)
                   phase  == (i - 1) % period
                   rail   == IF phase < key.rows THEN phase ELSE period - phase
               IN  steps[2 + rail + 1].txt[i] = text[i]

C14_Witness ==
    /\ algo = "railfence" /\ key.rows = 3 /\ pc = "output" /\ encrypt
    /\ text = WeAreDiscovered
    /\ result = WeAreDiscoveredOnThreeRails

-----------------------------------------------------------------------------
(* Failures *)

\* the errors the ciphers raise by a throw statement of their own
ValidationErrors ==
    {"Key A must be coprime with 26", "Modular inverse does not exist",
     "Key cannot be empty", "Key must contain at least one letter",
     "Key must contain at least one digit",
     "Invalid key matrix. Determinant must be coprime with 26.",
     "Number of rails must be at least 2",
     "Number of rows and columns must be at least 2",
     "Key must contain only digits", "Both keys cannot be empty",
     "Keys must contain only digits",
     "Mask must be a rectangular grid", "Text is too long for this grille"}

\* C17: whenever a call of a cipher raises one of its errors, the error is
\* raised before any transformation and the trace sink holds exactly the
\* lines it held before the call (the caller hands an empty sink to every
\* call, so the sink is empty after a failed call).
C17_EagerValidation ==
    (pc \in {"output", "done"} /\ error \in ValidationErrors) => steps = << >>

\* C18: for every key that passes the coprimality check of affineCipher or
\* the isValidMatrix check of hillCipher, the modInverse call that follows
\* returns a value: no call of these ciphers ends with the no-inverse error.
C18_NoInverseUnreachable ==
    (algo \in {"affine", "hill"} /\ pc \in {"output", "done"}) =>
        error # "Modular inverse does not exist"

\* the rows of the mask string m have one length
Rectangular(m) ==
    LET maskRows == splitLines(trim(m))
    IN  \A r \in 1..Len(maskRows) : Len(maskRows[r]) = Len(maskRows[1])

\* a call of grillesCipher has ended with the text-too-long error
RaisedTooLong ==
    algo = "grilles" /\ pc \in {"output", "done"}
        /\ error = "Text is too long for this grille"

\* C19, as stated: grillesCipher in encrypt mode raises the text-too-long
\* error exactly when text.length > 4 * (number of '1' cells of the mask),
\* and never raises it in decrypt mode.
C19_TextTooLongAnyMask ==
    (algo = "grilles" /\ pc \in {"output", "done"}) =>
        (RaisedTooLong <=> (encrypt /\ Len(text) > 4 * holeCount(key.str)))

\* C19, amended: for every mask whose rows have one length, grillesCipher in
\* encrypt mode raises the text-too-long error exactly when
\* text.length > 4 * (number of '1' cells of the mask); it never raises it
\* in decrypt mode, and never for a mask whose rows differ in length.
C19_TextTooLong ==
    (algo = "grilles" /\ pc \in {"output", "done"}) =>
        (RaisedTooLong <=>
            (encrypt /\ Rectangular(key.str) /\ Len(text) > 4 * holeCount(key.str)))

\* a mask of one hole and a text of five characters: one more than fits
C19_Witness ==
    /\ RaisedTooLong /\ pc = "output" /\ encrypt
    /\ key.str = <<"0", "1", "\n", "0", "0">>
    /\ text = DistinctText(5)

-----------------------------------------------------------------------------
(* The trace sink across calls: every cipher, with a caller that may hand   *)
(* the sink of the first call to the second call                            *)

MaxTraceTextLen == 2

AllAlgos ==
    {"atbash", "caesar", "affine", "vigenere", "gronsfeld", "beaufort", "autokey",
     "running", "hill", "railfence", "route", "columnar", "double", "myszkowski",
     "grilles"}

TraceTexts == TextsOver({"B", "y", " "}, MaxTraceTextLen)

\* for each cipher, keys it accepts and a key it rejects
TraceKeys(a) ==
    CASE a = "atbash"     -> {NumKey(0, 0)}
      [] a = "caesar"     -> {NumKey(3, 0), NumKey(0 - 1, 0)}
      [] a = "affine"     -> {NumKey(5, 8), NumKey(2, 0), NumKey(0 - 25, 0)}
      [] a \in PolyAlgos  -> {StrKey(<<"c">>), StrKey(<<"2">>), StrKey(<<"Z", "c">>),
                               StrKey(<< >>)}
      [] a = "hill"       -> {MatrixKey(<< <<5, 8>>, <<3, 7>> >>),
                               MatrixKey(<< <<1, 1>>, <<1, 1>> >>)}
      [] a = "railfence"  -> {GridKey(1, 0), GridKey(2, 0), GridKey(3, 0)}
      [] a = "route"      -> {GridKey(1, 2), GridKey(2, 2), GridKey(2, 3)}
      [] a = "columnar"   -> {StrKey(<<"2", "1">>), StrKey(<<"3", "1", "2", "4">>),
                               StrKey(<<"1", "a">>)}
      [] a = "double"     -> {TwoKeys(<<"2", "1">>, <<"1", "3", "2">>),
                               TwoKeys(<<"3", "1", "2", "4">>, <<"2", "4", "1", "3">>),
                               TwoKeys(<< >>, <<"1">>)}
      [] a = "myszkowski" -> {StrKey(<<"b", "A", "b">>), StrKey(<<"1">>)}
      [] a = "grilles"    -> {StrKey(<<"0", "1", "\n", "0", "0">>), StrKey(AppMask),
                               StrKey(<<"1", "0", "\n", "1">>)}

InitTrace == \E a \in AllAlgos, t \in TraceTexts : \E k \in TraceKeys(a) : Start(Input(a, k, t))

\* the returned string becomes the text of the next call, and the sink of
\* the first call, with its lines, is handed to the next call
KeepSink ==
    /\ pc = "output"
    /\ text' = result
    /\ result' = << >>
    /\ error' = NoError
    /\ pc' = "swapped"
    /\ UNCHANGED <<algo, key, encrypt, plain, history, steps>>

NextTrace == NextLetters \/ NextHill \/ NextTrans \/ NextGrille \/ KeepSink

SpecTrace == InitTrace /\ [][NextTrace]_vars

\* the lines of a are the first lines of b
IsPrefix(a, b) == Len(a) <= Len(b) /\ SubSeq(b, 1, Len(a)) = a

\* C20: after every successful call of any cipher the trace sink is its
\* previous content with lines appended, and the last line appended is the
\* 'Final result' line of the returned string, also for Double
\* Transposition, whose inner Columnar passes append their result lines
\* first.
C20_TraceShape ==
    [][(CanCall /\ pc' \in {"output", "done"} /\ error' = NoError) =>
            /\ IsPrefix(steps, steps')
            /\ Len(steps') > Len(steps)
            /\ steps'[Len(steps')] = FinalLine(result')]_vars

\* Double Transposition called twice on one sink: each call leaves the
\* result lines of its two Columnar passes and then its own
C20_Witness ==
    /\ algo = "double" /\ RoundTripDone
    /\ key.str = <<"2", "1">> /\ key.str2 = <<"1", "3", "2">>
    /\ plain = <<"B", "y">>
    /\ Cardinality({i \in 1..Len(steps) : steps[i].kind = "Final result"}) = 6
    /\ steps[Len(steps) - 1] = FinalLine(result)
    /\ steps[Len(steps)] = FinalLine(result)

-----------------------------------------------------------------------------
(* Key stream of the polyalphabetic ciphers *)

\* C21: for every polyalphabetic cipher the key stream advances on letters
\* only: the letters the cipher returns for a text are the letters it returns
\* for the text with every character that is no letter taken out (for Auto
\* Key too, whose n-th letter takes the n-th symbol of the key followed by
\* the plaintext letters).
C21_KeyStreamSync ==
    (algo \in PolyAlgos /\ CallReturned) =>
        lettersOnly(result) = Cipher(algo, key, lettersOnly(text), encrypt, << >>).out

-----------------------------------------------------------------------------
(* The utility functions called on their own *)

MaxModArg == 53

Is2x2(m) == Len(m) = 2 /\ Len(m[1]) = 2 /\ Len(m[2]) = 2

InitUtil ==
    \/ \E a \in (0 - MaxModArg)..MaxModArg : Start(Input("modInverse", NumKey(a, 26), << >>))
    \/ \E m \in HillMatrices : Start(Input("isValidMatrix", MatrixKey(m), << >>))
    \/ \E m \in {n \in HillMatrices : Is2x2(n)} :
            Start(Input("matrixInverse", MatrixKey(m), << >>))

\* modInverse(a, m): the value returned, or the error thrown
CallModInverse ==
    /\ CanCall /\ algo = "modInverse"
    /\ LET x == modInverse(key.a, key.b)
       IN  Outcome(IF x = NoInverse THEN Thrown("Modular inverse does not exist", steps)
                   ELSE Returned(<<x>>, steps), encrypt)

CallIsValidMatrix ==
    /\ CanCall /\ algo = "isValidMatrix"
    /\ Outcome(Returned(<<isValidMatrix(key.matrix)>>, steps), encrypt)

CallMatrixInverse ==
    /\ CanCall /\ algo = "matrixInverse"
    /\ LET inv == matrixInverse(key.matrix)
       IN  Outcome(IF inv = << >> THEN Thrown("Modular inverse does not exist", steps)
                   ELSE Returned(inv, steps), encrypt)

NextUtil == CallModInverse \/ CallIsValidMatrix \/ CallMatrixInverse

SpecUtil == InitUtil /\ [][NextUtil]_vars

\* C22: modInverse(a, 26) returns x in [1, 26) with a * x congruent to 1
\* mod 26 for every integer a coprime with 26, negative a and a >= 26
\* included, and throws the no-inverse error exactly when a is not coprime
\* with 26.
C22_ModInverse ==
    (algo = "modInverse" /\ pc = "output") =>
        IF Coprime26(key.a)
        THEN /\ error = NoError
             /\ result[1] \in 1..25
             /\ (key.a * result[1]) % 26 = 1
        ELSE error = "Modular inverse does not exist"

\* the determinant of a 2x2 matrix
Det(m) == m[1][1] * m[2][2] - m[1][2] * m[2][1]

\* the product of two 2x2 matrices, reduced mod 26
MatMul26(m, n) ==
    [i \in 1..2 |-> [j \in 1..2 |-> (m[i][1] * n[1][j] + m[i][2] * n[2][j]) % 26]]

\* C23: isValidMatrix(M) is true iff M is 2x2 and det(M) mod 26 (true mod,
\* negative determinants included) is coprime with 26; for every such M
\* matrixInverse(M) has its entries in [0, 26) and M * matrixInverse(M) is
\* the identity matrix mod 26.
C23_HillMatrixUtilities ==
    /\ (algo = "isValidMatrix" /\ pc = "output") =>
            result[1] = (Is2x2(key.matrix) /\ Coprime26(Det(key.matrix)))
    /\ (algo = "matrixInverse" /\ pc = "output" /\ Coprime26(Det(key.matrix))) =>
            /\ error = NoError
            /\ \A i \in 1..2, j \in 1..2 : result[i][j] \in 0..25
            /\ MatMul26(key.matrix, result) = << <<1, 0>>, <<0, 1>> >>

\* a matrix with negative entries and a negative determinant (-43) has been
\* inverted
C23_Witness ==
    /\ algo = "matrixInverse" /\ pc = "output" /\ error = NoError
    /\ key.matrix = << <<0 - 1, 5>>, <<8, 3>> >>
    /\ MatMul26(key.matrix, result) = << <<1, 0>>, <<0, 1>> >>

-----------------------------------------------------------------------------
(* Hill padding, columnar column lengths, Double Transposition *)

\* C24: when the text has an odd number of letters, hillCipher pads the
\* letter stream with 'X' and the transformed padding character is emitted:
\* the output holds one more letter than the input.
C24_HillPaddingEmitted ==
    (algo = "hill" /\ CallReturned /\ Len(lettersOnly(text)) % 2 = 1) =>
        Len(lettersOnly(result)) = Len(lettersOnly(text)) + 1

\* the number of characters encryption places in column j (from 1) of a
\* grid of keyLen columns filled row by row with textLen characters
FilledLength(textLen, keyLen, j) ==
    IF textLen % keyLen = 0 \/ j - 1 < textLen % keyLen
    THEN Ceil(textLen, keyLen) ELSE Ceil(textLen, keyLen) - 1

\* C25: for every digit key and every ciphertext length, the length
\* columnar decryption computes for grid column j is the number of
\* characters encryption placed in column j.
C25_ColumnLengths ==
    (algo = "columnar" /\ CallReturned /\ ~encrypt) =>
        \A j \in 1..Len(key.str) :
            colLength([c \in 1..Len(key.str) |-> parseInt(key.str[c])], Len(text), j)
                = FilledLength(Len(text), Len(key.str), j)

\* C26: Double Transposition is two chained columnar passes: encryption
\* returns the columnar encryption with key2 of the columnar encryption with
\* key1, decryption the columnar decryption with key1 of the columnar
\* decryption with key2.
C26_DoubleIsTwoColumnar ==
    (algo = "double" /\ CallReturned) =>
        result =
            IF encrypt
            THEN columnarCipher(columnarCipher(text, key.str, TRUE, << >>).out,
                                key.str2, TRUE, << >>).out
            ELSE columnarCipher(columnarCipher(text, key.str2, FALSE, << >>).out,
                                key.str, FALSE, << >>).out

\* a decryption with two different keys, where the order of the keys shows
C26_Witness ==
    /\ algo = "double" /\ pc = "output" /\ error = NoError /\ ~encrypt
    /\ key.str = <<"2", "1">> /\ key.str2 = <<"1", "3", "2">>
    /\ text = <<"a", "b", "c", "d", "e">>
    /\ result = <<"b", "a", "d", "e", "c">>

-----------------------------------------------------------------------------
(* Grille rotation, conservation of characters, Hill on whole blocks *)

\* C27: for every mask whose rows have one length, rows # cols included,
\* grillesCipher completes in both modes without any failure other than
\* text-too-long.
C27_GrilleNonSquareRotation ==
    (algo = "grilles" /\ pc \in {"output", "done"} /\ Rectangular(key.str)) =>
        error \in {NoError, "Text is too long for this grille"}

\* C28: for every non-empty digit-only key, digit 0 and repeated digits
\* included, and every text without a space character, the ciphertext of
\* columnar encryption is a permutation of the text.
C28_ColumnarConservation ==
    (algo = "columnar" /\ CallReturned /\ encrypt /\ NoSpace(text)) =>
        Permutation(result, text)

\* C29: for every valid key matrix and every text with an even number of
\* letters, the Hill decryption of the Hill encryption is the text itself,
\* letter case and every other character at its place.
C29_HillEvenRoundTrip ==
    (algo = "hill" /\ RoundTripDone /\ Len(lettersOnly(plain)) % 2 = 0) =>
        result = plain

\* a block of both cases around a character that is no letter, encrypted
\* with the matrix of the application and decrypted
C29_Witness ==
    /\ algo = "hill" /\ RoundTripDone
    /\ key.matrix = << <<5, 8>>, <<3, 7>> >>
    /\ plain = <<"B", "!", "y">>
    /\ text = <<"P", "!", "p">>
    /\ result = plain

\* the mask string m has as many rows as columns
Square(m) ==
    LET maskRows == splitLines(trim(m))
    IN  Rectangular(m) /\ Len(maskRows) = Len(maskRows[1])

\* C30: for every square mask and every text without a space character of
\* at most 4 * holeCount characters, no grid cell is written twice, so the
\* ciphertext of grille encryption is a permutation of the text.
C30_GrilleConservation ==
    (algo = "grilles" /\ CallReturned /\ encrypt /\ Square(key.str)
        /\ NoSpace(text) /\ Len(text) <= 4 * holeCount(key.str)) =>
            Permutation(result, text)

=============================================================================
